---- MODULE Spec2Model ----
(***************************************************************************)
(* attractor: the pipeline engine (core/engine.py), the graph model        *)
(* (core/graph.py), the guard evaluator (core/conditions.py) and the       *)
(* outcome type (core/outcome.py).                                         *)
(*                                                                         *)
(* Python values are records [ty, i, s] of one fixed shape, so that any    *)
(* two of them can be compared: ty is the Python type, i the integer       *)
(* payload and s the text payload.                                         *)
(***************************************************************************)
EXTENDS Integers, Sequences, FiniteSets, TLC

VARIABLES
    graph,      \* the GraphSpec handed to PipelineEngine.run
    context,    \* Context._values of the Context handed to run
    pc,         \* "init", "running", "returned", "raised"; "pick"/"picked" for _pick_next_node alone
    current,    \* run's local `current`
    retries,    \* run's local dict `retries`
    satisfied,  \* run's local set `satisfied`
    result,     \* run's local RunResult `result`
    raised,     \* the exception that left run, if any
    outcomes,   \* the Outcomes the handlers returned so far, in order
    arg,        \* the Outcome passed to _pick_next_node when it is exercised alone
    picked,     \* what _pick_next_node returned when it is exercised alone
    returned,   \* what the caller of run holds: the RunResult run returned, if it returned
    lock,       \* Context._lock: the thread that holds it
    logs,       \* Context._logs
    threads,    \* the threads calling one Context: each one's call, position and locals
    twin        \* a second run of the same graph, on a Context that handlers tamper with

vars == <<graph, context, pc, current, retries, satisfied, result, raised, outcomes, arg, picked, returned,
          lock, logs, threads, twin>>

\* the state of a Context beyond its values, and of the threads that share it
ctxvars == <<lock, logs, threads>>

----------------------------------------------------------------------------
(* Python values *)

MkVal(t, n, x) == [ty |-> t, i |-> n, s |-> x]
NoneV == MkVal("none", 0, "")
Missing == MkVal("missing", 0, "")
StrV(x) == MkVal("str", 0, x)
IntV(n) == MkVal("int", n, "")
BoolV(b) == MkVal("bool", IF b THEN 1 ELSE 0, "")
FloatV(x) == MkVal("float", 0, x)
DurationV(n, u) == MkVal("duration", n, u)

\* Python truthiness (`if x`, `not x`, `a or b`) of a decoded value.
Truthy(v) ==
    CASE v.ty = "none" -> FALSE
      [] v.ty = "missing" -> FALSE
      [] v.ty = "bool" -> v.i = 1
      [] v.ty = "int" -> v.i # 0
      [] v.ty = "str" -> v.s # ""
      [] v.ty = "float" -> v.s \notin {"0.0", "-0.0"}
      [] OTHER -> TRUE

IntText == (-1 :> "-1") @@ (0 :> "0") @@ (1 :> "1") @@ (2 :> "2") @@ (3 :> "3")
             @@ (5 :> "5") @@ (10 :> "10")

\* str(x)
PyStr(v) ==
    CASE v.ty = "str" -> v.s
      [] v.ty = "bool" -> IF v.i = 1 THEN "True" ELSE "False"
      [] v.ty = "int" -> IntText[v.i]
      [] v.ty = "float" -> v.s
      [] OTHER -> "None"

\* int(x) of a decoded integer or boolean attribute.
PyInt(v) == v.i

----------------------------------------------------------------------------
(* core/graph.py: attribute decoding *)

Absent == "<absent>"

Quote(body) == "\"" \o body \o "\""

ExprKeyIsOne == "context['k'] == 1"
ExprKeyPositive == "context['k'] > 0"
ExprGetKey == "context.get('k')"
ExprUnknownName == "missing_name"
ExprGoalIsShip == "graph['goal'] == 'ship'"

Expressions == {ExprKeyIsOne, ExprKeyPositive, ExprGetKey, ExprUnknownName, ExprGoalIsShip}

QuotedBodies == Expressions \cup {"", "true", "False", "ship", "5"}

Strip(raw) ==
    CASE raw = " true " -> "true"
      [] raw = " 5" -> "5"
      [] OTHER -> raw

Unquote(raw) ==
    IF \E b \in QuotedBodies : raw = Quote(b)
    THEN CHOOSE b \in QuotedBodies : raw = Quote(b)
    ELSE raw

Lower(raw) ==
    CASE raw \in {"true", "True", "TRUE"} -> "true"
      [] raw \in {"false", "False", "FALSE"} -> "false"
      [] OTHER -> raw

IntLits == ("-1" :> -1) @@ ("0" :> 0) @@ ("1" :> 1) @@ ("2" :> 2) @@ ("3" :> 3)
             @@ ("5" :> 5) @@ ("10" :> 10)
DurationLits == ("30s" :> DurationV(30, "s")) @@ ("5m" :> DurationV(5, "m"))
FloatLits == {"1.5", "0.0"}

ParseValue(raw0) ==
    LET raw == Unquote(Strip(raw0))
        lower == Lower(raw)
    IN  IF raw = "" THEN StrV("")
        ELSE IF lower \in {"true", "false"} THEN BoolV(lower = "true")
        ELSE IF raw \in DOMAIN DurationLits THEN DurationLits[raw]
        ELSE IF raw \in DOMAIN IntLits THEN IntV(IntLits[raw])
        ELSE IF raw \in FloatLits THEN FloatV(raw)
        ELSE StrV(raw)

\* An attribute the document does not give is not in the dict: attrs.get is None.
ParseAttrs(attrs) ==
    [k \in DOMAIN attrs |-> IF attrs[k] = Absent THEN NoneV ELSE ParseValue(attrs[k])]

----------------------------------------------------------------------------
(* core/graph.py: the graph *)

NodeAttrNames == {"shape", "type", "goal_gate", "max_retries", "retry_target",
                  "fallback_retry_target"}
EdgeAttrNames == {"condition", "label", "weight"}
GraphAttrNames == {"goal"}

ShapeTypeMap ==
    ("Mdiamond" :> "start") @@ ("Msquare" :> "exit") @@ ("box" :> "codergen")
      @@ ("hexagon" :> "wait.human") @@ ("diamond" :> "conditional")
      @@ ("component" :> "parallel") @@ ("tripleoctagon" :> "parallel.fan_in")
      @@ ("parallelogram" :> "tool") @@ ("house" :> "stack.manager_loop")

HandlerType(node) ==
    LET explicit == node.attrs["type"]
        shape == IF node.attrs["shape"] = NoneV THEN StrV("box") ELSE node.attrs["shape"]
    IN  IF Truthy(explicit) THEN PyStr(explicit)
        ELSE IF shape.ty = "str" /\ shape.s \in DOMAIN ShapeTypeMap
             THEN ShapeTypeMap[shape.s]
             ELSE "codergen"

\* GraphSpec.__init__: the node dict keeps the last node of an id, the edges
\* keep their declaration order.
GraphSpec(nodes, edges, graph_attrs) ==
    [graph_attrs |-> graph_attrs,
     nodes |-> [id \in {nodes[j].id : j \in DOMAIN nodes} |->
                  nodes[CHOOSE j \in DOMAIN nodes :
                          /\ nodes[j].id = id
                          /\ \A m \in DOMAIN nodes : nodes[m].id = id => m <= j]],
     edges |-> edges]

ParseDotData(doc) ==
    GraphSpec([j \in DOMAIN doc.nodes |->
                  [id |-> doc.nodes[j].id, attrs |-> ParseAttrs(doc.nodes[j].attrs)]],
              [j \in DOMAIN doc.edges |->
                  [source |-> doc.edges[j].source,
                   target |-> doc.edges[j].target,
                   attrs |-> ParseAttrs(doc.edges[j].attrs)]],
              ParseAttrs(doc.graph_attrs))

Outgoing(g, node_id) == SelectSeq(g.edges, LAMBDA e : e.source = node_id)

\* start nodes found by shape alone, whatever the explicit type
StartNodesByShape(g) ==
    {id \in DOMAIN g.nodes : g.nodes[id].attrs["shape"] = StrV("Mdiamond")}

StartNodes(g) == {id \in DOMAIN g.nodes : HandlerType(g.nodes[id]) = "start"}
ExitNodes(g) == {id \in DOMAIN g.nodes : HandlerType(g.nodes[id]) = "exit"}

\* a goal read without the "" default: str(None) when the attribute is absent
GoalWithoutDefault(g) ==
    IF g.graph_attrs["goal"] = NoneV THEN "None" ELSE PyStr(g.graph_attrs["goal"])

Goal(g) == IF g.graph_attrs["goal"] = NoneV THEN "" ELSE PyStr(g.graph_attrs["goal"])

HasNode(g, node_id) == node_id \in DOMAIN g.nodes

----------------------------------------------------------------------------
(* core/context.py *)

RetryKey(node_id) == "internal.retry_count." \o node_id

NodeIds == {"start", "a", "b", "exit"}

CtxKeys == {"graph.goal", "k"} \cup {RetryKey(n) : n \in NodeIds}

\* Context(): no key is set.
EmptyContext == [key \in CtxKeys |-> Missing]

\* Context.set
ContextSet(ctx, key, value) == [ctx EXCEPT ![key] = value]

\* Context.update: dict.update, the entry's keys overwrite.
ContextUpdate(ctx, entries) ==
    [key \in CtxKeys |-> IF entries[key] # Missing THEN entries[key] ELSE ctx[key]]

\* Context.snapshot: dict(self._values)
Snapshot(ctx) == ctx

----------------------------------------------------------------------------
(* core/conditions.py *)

\* eval(expression, {"__builtins__": {}}, namespace) followed by bool():
\* "true", "false", or "raise" when Python raises an Exception.
PyEval(expression, ctx, graph_attrs) ==
    IF expression.ty # "str" THEN "raise"
    ELSE LET k == ctx["k"]
             goal == graph_attrs["goal"]
             Bool(b) == IF b THEN "true" ELSE "false"
         IN  CASE expression.s = ExprKeyIsOne ->
                    IF k = Missing THEN "raise"
                    ELSE Bool(k.ty \in {"int", "bool"} /\ k.i = 1)
               [] expression.s = ExprKeyPositive ->
                    IF k.ty \in {"int", "bool"} THEN Bool(k.i > 0) ELSE "raise"
               [] expression.s = ExprGetKey -> Bool(Truthy(k))
               [] expression.s = ExprGoalIsShip ->
                    IF goal = NoneV THEN "raise" ELSE Bool(goal = StrV("ship"))
               [] OTHER -> "raise"

\* an evaluator without the except clause
EvaluateConditionNoExcept(expression, ctx, graph_attrs) ==
    IF ~Truthy(expression) THEN "true" ELSE PyEval(expression, Snapshot(ctx), graph_attrs)

\* an evaluator that lets a failing guard pass
EvaluateConditionFailOpen(expression, ctx, graph_attrs) ==
    IF ~Truthy(expression) THEN "true"
    ELSE LET r == PyEval(expression, Snapshot(ctx), graph_attrs)
         IN  IF r = "raise" THEN "true" ELSE r

\* an evaluator that evaluates an absent guard like any other
EvaluateConditionNoShortcut(expression, ctx, graph_attrs) ==
    LET r == PyEval(expression, Snapshot(ctx), graph_attrs)
    IN  IF r = "raise" THEN "false" ELSE r

EvaluateCondition(expression, ctx, graph_attrs) ==
    IF ~Truthy(expression) THEN "true"
    ELSE LET r == PyEval(expression, Snapshot(ctx), graph_attrs)
         IN  IF r = "raise" THEN "false" ELSE r

----------------------------------------------------------------------------
(* core/outcome.py *)

StageStatus == {"success", "partial_success", "retry", "fail", "skipped"}

NoUpdates == [key \in CtxKeys |-> Missing]

Outcome(status, context_updates, preferred_label, suggested_next_ids) ==
    [status |-> status,
     notes |-> "",
     context_updates |-> context_updates,
     preferred_label |-> preferred_label,
     suggested_next_ids |-> suggested_next_ids]

----------------------------------------------------------------------------
(* core/engine.py: _pick_next_node *)

NoNode == "<None>"
GuardRaised == "<raise>"

\* a rule that looks at the first suggested id only
FirstSuggestedHeadOnly(g, ids) ==
    IF ids # <<>> /\ HasNode(g, Head(ids)) THEN Head(ids) ELSE NoNode

\* the first suggested id that names a node of the graph
FirstSuggested(g, ids) ==
    LET existing == SelectSeq(ids, LAMBDA c : HasNode(g, c))
    IN  IF existing = <<>> THEN NoNode ELSE Head(existing)

\* node.attrs.get("retry_target") or node.attrs.get("fallback_retry_target")
RetryTarget(node) ==
    IF Truthy(node.attrs["retry_target"]) THEN node.attrs["retry_target"]
    ELSE node.attrs["fallback_retry_target"]

UsesRetryTarget(status) == status = "fail"

GuardOf(edge, ctx, g) == EvaluateCondition(edge.attrs["condition"], ctx, g.graph_attrs)

Candidates(g, node_id, ctx) ==
    SelectSeq(Outgoing(g, node_id), LAMBDA e : GuardOf(e, ctx, g) = "true")

\* int(edge.attrs.get("weight", 0))
Weight(edge) == IF edge.attrs["weight"] = NoneV THEN 0 ELSE PyInt(edge.attrs["weight"])

LabelMatches(edge, preferred) ==
    Truthy(edge.attrs["label"]) /\ PyStr(edge.attrs["label"]) = preferred

\* a sort that puts an edge behind the later edges of its weight
InsertByWeightUnstable(edge, sorted) ==
    LET ahead == Cardinality({j \in DOMAIN sorted : Weight(sorted[j]) >= Weight(edge)})
    IN  SubSeq(sorted, 1, ahead) \o <<edge>> \o SubSeq(sorted, ahead + 1, Len(sorted))

\* sorted(..., reverse=True): stable, so edges of equal weight keep their order.
InsertByWeight(edge, sorted) ==
    LET ahead == Cardinality({j \in DOMAIN sorted : Weight(sorted[j]) > Weight(edge)})
    IN  SubSeq(sorted, 1, ahead) \o <<edge>> \o SubSeq(sorted, ahead + 1, Len(sorted))

RECURSIVE SortedByWeight(_)
SortedByWeight(edges) ==
    IF edges = <<>> THEN <<>>
    ELSE InsertByWeight(Head(edges), SortedByWeight(Tail(edges)))

\* a selection that looks for the preferred label among all outgoing edges
PickByEdgesAnyLabel(g, node_id, ctx, outcome) ==
    LET outgoing == Outgoing(g, node_id)
        candidates == Candidates(g, node_id, ctx)
        labelled == SelectSeq(outgoing, LAMBDA e : LabelMatches(e, outcome.preferred_label))
    IN  IF candidates = <<>> THEN NoNode
        ELSE IF outcome.preferred_label # "" /\ labelled # <<>> THEN Head(labelled).target
        ELSE Head(SortedByWeight(candidates)).target

PickByEdges(g, node_id, ctx, outcome) ==
    LET outgoing == Outgoing(g, node_id)
        candidates == Candidates(g, node_id, ctx)
        labelled == SelectSeq(candidates, LAMBDA e : LabelMatches(e, outcome.preferred_label))
    IN  IF \E j \in DOMAIN outgoing : GuardOf(outgoing[j], ctx, g) = "raise"
        THEN GuardRaised
        ELSE IF candidates = <<>> THEN NoNode
        ELSE IF outcome.preferred_label # "" /\ labelled # <<>> THEN Head(labelled).target
        ELSE Head(SortedByWeight(candidates)).target

\* a selection for which a failure without a retry target ends the run
PickNextNodeFailStops(node, g, ctx, outcome) ==
    LET suggested == FirstSuggested(g, outcome.suggested_next_ids)
        retry_target == RetryTarget(node)
    IN  IF suggested # NoNode THEN suggested
        ELSE IF UsesRetryTarget(outcome.status)
             THEN IF Truthy(retry_target) /\ HasNode(g, PyStr(retry_target))
                  THEN PyStr(retry_target)
                  ELSE NoNode
        ELSE PickByEdges(g, node.id, ctx, outcome)

PickNextNode(node, g, ctx, outcome) ==
    LET suggested == FirstSuggested(g, outcome.suggested_next_ids)
        retry_target == RetryTarget(node)
    IN  IF suggested # NoNode THEN suggested
        ELSE IF /\ UsesRetryTarget(outcome.status)
                /\ Truthy(retry_target)
                /\ HasNode(g, PyStr(retry_target))
             THEN PyStr(retry_target)
        ELSE PickByEdges(g, node.id, ctx, outcome)

----------------------------------------------------------------------------
(* Documents: the graphs the checks run on *)

NodeDecl(id, shape, goal_gate, max_retries, retry_target) ==
    [id |-> id,
     attrs |-> [name \in NodeAttrNames |->
                  CASE name = "shape" -> shape
                    [] name = "goal_gate" -> goal_gate
                    [] name = "max_retries" -> max_retries
                    [] name = "retry_target" -> retry_target
                    [] OTHER -> Absent]]

EdgeDecl(source, target, condition, label, weight) ==
    [source |-> source,
     target |-> target,
     attrs |-> [name \in EdgeAttrNames |->
                  CASE name = "condition" -> condition
                    [] name = "label" -> label
                    [] OTHER -> weight]]

Document(nodes, edges, goal) ==
    [nodes |-> nodes, edges |-> edges, graph_attrs |-> [name \in GraphAttrNames |-> goal]]

\* every sequence over S of length at most n
RECURSIVE SeqsUpTo(_, _)
SeqsUpTo(S, n) ==
    IF n = 0 THEN {<<>>}
    ELSE LET shorter == SeqsUpTo(S, n - 1)
         IN  shorter \cup {Append(q, x) : q \in shorter, x \in S}

----------------------------------------------------------------------------
(* _pick_next_node exercised alone: node a of a four-node graph, its          *)
(* outgoing edges drawn from a pool, the j-th edge leading to PickTargets[j]. *)

MaxEdges == 2

PickTargets == <<"b", "exit", "start", "a">>

PickConditions == {Absent, Quote(""), "true", "false", Quote(ExprGetKey), Quote(ExprKeyIsOne),
                   ExprUnknownName}
PickLabels == {Absent, "approve"}
PickWeights == {Absent, "-1", "5"}

PickEdgeAttrs == {<<c, l, w>> : c \in PickConditions, l \in PickLabels, w \in PickWeights}

PickDocument(attrs) ==
    Document(<<NodeDecl("start", "Mdiamond", Absent, Absent, Absent),
               NodeDecl("a", "box", Absent, Absent, Absent),
               NodeDecl("b", "box", Absent, Absent, Absent),
               NodeDecl("exit", "Msquare", Absent, Absent, Absent)>>,
             [j \in DOMAIN attrs |->
                 EdgeDecl("a", PickTargets[j], attrs[j][1], attrs[j][2], attrs[j][3])],
             Absent)

PickContexts == {ContextSet(EmptyContext, "graph.goal", StrV("")),
                 ContextSet(ContextSet(EmptyContext, "graph.goal", StrV("")), "k", IntV(1))}

PickOutcomes == {Outcome("success", NoUpdates, l, <<>>) : l \in {"", "approve"}}

NoResult == [completed_nodes |-> <<>>, goal_gate_satisfied |-> FALSE,
             context |-> EmptyContext, events |-> <<>>]
NoError == [kind |-> "", node |-> ""]
NoOutcome == Outcome("success", NoUpdates, "", <<>>)

\* no second run
NoTwin == [pc |-> "none", current |-> "", context |-> EmptyContext,
           retries |-> [id \in {} |-> 0], completed |-> <<>>]

\* no thread holds the lock; no thread shares the Context
NoThread == ""
NoThreads == [t \in {} |-> 0]

InitPick ==
    /\ graph \in {ParseDotData(PickDocument(attrs)) : attrs \in SeqsUpTo(PickEdgeAttrs, MaxEdges)}
    /\ context \in PickContexts
    /\ arg \in PickOutcomes
    /\ pc = "pick"
    /\ current = "a"
    /\ retries = [id \in {} |-> 0]
    /\ satisfied = {}
    /\ result = NoResult
    /\ raised = NoError
    /\ outcomes = <<>>
    /\ picked = NoNode
    /\ returned = NoResult
    /\ twin = NoTwin
    /\ lock = NoThread
    /\ logs = <<>>
    /\ threads = NoThreads

Pick ==
    /\ pc = "pick"
    /\ picked' = PickNextNode(graph.nodes[current], graph, context, arg)
    /\ pc' = "picked"
    /\ UNCHANGED <<graph, context, current, retries, satisfied, result, raised, outcomes, arg,
                   returned>>
    /\ UNCHANGED ctxvars
    /\ UNCHANGED twin

NextPick == Pick

SpecPick == InitPick /\ [][NextPick]_vars

----------------------------------------------------------------------------
(* core/engine.py: PipelineEngine.run *)

StartNode(g) == CHOOSE id \in StartNodes(g) : TRUE
ExitNode(g) == CHOOSE id \in ExitNodes(g) : TRUE

\* start_node() and exit_node() both return
WellFormed(g) == Cardinality(StartNodes(g)) = 1 /\ Cardinality(ExitNodes(g)) = 1

IsGoalGate(node) == Truthy(node.attrs["goal_gate"])

GoalGateNodes(g) == {id \in DOMAIN g.nodes : IsGoalGate(g.nodes[id])}

\* a gate that a partial success satisfies as well
GateSatisfyingPartial(status) == status \in {"success", "partial_success"}

GateSatisfying(status) == status = "success"

\* a budget that defaults to one retry
MaxRetriesOfDefaultOne(node) ==
    IF node.attrs["max_retries"] = NoneV THEN 1 ELSE PyInt(node.attrs["max_retries"])

\* int(node.attrs.get("max_retries", 0))
MaxRetriesOf(node) ==
    IF node.attrs["max_retries"] = NoneV THEN 0 ELSE PyInt(node.attrs["max_retries"])

\* a counter that is forgotten between two looks at it
RetryCountForgotten(r, node_id) == 0

\* retries.get(node.id, 0)
RetryCount(r, node_id) == IF node_id \in DOMAIN r THEN r[node_id] ELSE 0

Retryable(status) == status \in {"fail", "retry"}

\* a budget check that always allows another retry
BelowBudgetAlways(count, max_retries) == TRUE

\* a budget check that allows one retry too many
BelowBudgetInclusive(count, max_retries) == count <= max_retries

BelowBudget(count, max_retries) == count < max_retries

\* a retry policy that never re-executes
ShouldRetryNever(node, outcome, r) == FALSE

ShouldRetry(node, outcome, r) ==
    /\ Retryable(outcome.status)
    /\ BelowBudget(RetryCount(r, node.id), MaxRetriesOf(node))

Event(node, outcome) ==
    [node |-> node.id, status |-> outcome.status, notes |-> outcome.notes]

HasUpdates(outcome) == \E key \in CtxKeys : outcome.context_updates[key] # Missing

\* an engine that drops the context updates of an outcome
ContextAfterUnmerged(ctx, outcome) == ctx

ContextAfter(ctx, outcome) ==
    IF HasUpdates(outcome) THEN ContextUpdate(ctx, outcome.context_updates) ELSE ctx

SatisfiedAfter(sat, node, outcome) ==
    IF IsGoalGate(node) /\ GateSatisfying(outcome.status) THEN sat \cup {node.id} ELSE sat

\* a history that does not repeat a node on a retry
ResultAfterNoDuplicates(res, node, outcome) ==
    [res EXCEPT !.events = Append(@, Event(node, outcome)),
                !.completed_nodes =
                    IF @ # <<>> /\ @[Len(@)] = node.id THEN @ ELSE Append(@, node.id)]

ResultAfter(res, node, outcome) ==
    [res EXCEPT !.events = Append(@, Event(node, outcome)),
                !.completed_nodes = Append(@, node.id)]

GoalGateSatisfied(g, sat) == GoalGateNodes(g) \ sat = {}

MaxSteps == 4

\* build_default_registry: the handler types the engine's registry knows
Registry == {ShapeTypeMap[shape] : shape \in DOMAIN ShapeTypeMap}

\* handler_for returns a handler for the node
HasHandler(node) == HandlerType(node) \in Registry

\* the handler of the current node is executed and returns outcome
Executes(outcome) ==
    /\ pc = "running"
    /\ HasNode(graph, current)
    /\ HasHandler(graph.nodes[current])
    /\ Len(result.events) < MaxSteps
    /\ outcomes' = Append(outcomes, outcome)
    /\ satisfied' = SatisfiedAfter(satisfied, graph.nodes[current], outcome)

Start ==
    /\ pc = "init"
    /\ WellFormed(graph)
    /\ context' = ContextSet(context, "graph.goal", StrV(Goal(graph)))
    /\ retries' = [id \in {} |-> 0]
    /\ satisfied' = {}
    /\ result' = NoResult
    /\ current' = StartNode(graph)
    /\ pc' = "running"
    /\ UNCHANGED <<graph, raised, outcomes, arg, picked, returned>>
    /\ UNCHANGED ctxvars
    /\ UNCHANGED twin

StartFail ==
    /\ pc = "init"
    /\ ~WellFormed(graph)
    /\ pc' = "raised"
    /\ raised' = [kind |-> "structural", node |-> ""]
    /\ UNCHANGED <<graph, context, current, retries, satisfied, result, outcomes, arg, picked, returned>>
    /\ UNCHANGED ctxvars
    /\ UNCHANGED twin

\* graph.get_node(current) raises KeyError
LookupFail ==
    /\ pc = "running"
    /\ ~HasNode(graph, current)
    /\ pc' = "raised"
    /\ raised' = [kind |-> "lookup", node |-> current]
    /\ UNCHANGED <<graph, context, current, retries, satisfied, result, outcomes, arg, picked, returned>>
    /\ UNCHANGED ctxvars
    /\ UNCHANGED twin

\* self.registry.handler_for(node.handler_type()) raises KeyError
DispatchFail ==
    /\ pc = "running"
    /\ HasNode(graph, current)
    /\ ~HasHandler(graph.nodes[current])
    /\ pc' = "raised"
    /\ raised' = [kind |-> "dispatch", node |-> current]
    /\ UNCHANGED <<graph, context, current, retries, satisfied, result, outcomes, arg, picked, returned>>
    /\ UNCHANGED ctxvars
    /\ UNCHANGED twin

Retry(outcome) ==
    LET node == graph.nodes[current]
        count == RetryCount(retries, current)
    IN  /\ Executes(outcome)
        /\ ShouldRetry(node, outcome, retries)
        /\ result' = ResultAfter(result, node, outcome)
        /\ retries' = [id \in DOMAIN retries \cup {current} |->
                          IF id = current THEN count + 1 ELSE retries[id]]
        /\ context' = ContextSet(ContextAfter(context, outcome), RetryKey(current),
                                 IntV(count + 1))
        /\ UNCHANGED <<graph, pc, current, raised, arg, picked, returned>>
        /\ UNCHANGED ctxvars
        /\ UNCHANGED twin

Finish(outcome) ==
    LET node == graph.nodes[current]
    IN  /\ Executes(outcome)
        /\ ~ShouldRetry(node, outcome, retries)
        /\ current = ExitNode(graph)
        /\ context' = ContextAfter(context, outcome)
        /\ result' = [ResultAfter(result, node, outcome) EXCEPT
                         !.goal_gate_satisfied = GoalGateSatisfied(graph, satisfied'),
                         !.context = Snapshot(context')]
        /\ pc' = "returned"
        /\ returned' = result'
        /\ UNCHANGED <<graph, current, retries, raised, arg, picked>>
        /\ UNCHANGED ctxvars
        /\ UNCHANGED twin

Route(outcome) ==
    LET node == graph.nodes[current]
        next_node == PickNextNode(node, graph, ContextAfter(context, outcome), outcome)
    IN  /\ Executes(outcome)
        /\ ~ShouldRetry(node, outcome, retries)
        /\ current # ExitNode(graph)
        /\ next_node \notin {NoNode, GuardRaised}
        /\ context' = ContextAfter(context, outcome)
        /\ result' = ResultAfter(result, node, outcome)
        /\ current' = next_node
        /\ UNCHANGED <<graph, pc, retries, raised, arg, picked, returned>>
        /\ UNCHANGED ctxvars
        /\ UNCHANGED twin

Abort(outcome) ==
    LET node == graph.nodes[current]
        next_node == PickNextNode(node, graph, ContextAfter(context, outcome), outcome)
    IN  /\ Executes(outcome)
        /\ ~ShouldRetry(node, outcome, retries)
        /\ current # ExitNode(graph)
        /\ next_node \in {NoNode, GuardRaised}
        /\ context' = ContextAfter(context, outcome)
        /\ result' = ResultAfter(result, node, outcome)
        /\ pc' = "raised"
        /\ raised' = [kind |-> IF next_node = NoNode THEN "routing" ELSE "guard",
                      node |-> current]
        /\ UNCHANGED <<graph, current, retries, arg, picked, returned>>
        /\ UNCHANGED ctxvars
        /\ UNCHANGED twin

----------------------------------------------------------------------------
(* The runs the checks explore *)

RunNodes(max_a, max_exit, gate_a, gate_b, shape_b, shape_exit, retry_a) ==
    <<NodeDecl("start", "Mdiamond", Absent, Absent, Absent),
      NodeDecl("a", "box", gate_a, max_a, retry_a),
      NodeDecl("b", shape_b, gate_b, Absent, Absent),
      NodeDecl("exit", shape_exit, Absent, max_exit, Absent)>>

\* the declaration with an explicit type attribute
Typed(decl, type) == [decl EXCEPT !.attrs["type"] = type]

PlainNodes == RunNodes(Absent, Absent, Absent, Absent, "box", "Msquare", Absent)

\* no start: the Mdiamond node carries type=tool
StartRetyped == [PlainNodes EXCEPT ![1] = Typed(@, "tool")]
\* two exits: the box b carries type=exit
SecondExit == [PlainNodes EXCEPT ![3] = Typed(@, "exit")]
\* the declaration with a legacy fallback_retry_target attribute
WithFallback(decl, target) == [decl EXCEPT !.attrs["fallback_retry_target"] = target]

\* a declares only the legacy attribute, naming b
LegacyTarget == [PlainNodes EXCEPT ![2] = WithFallback(@, "b")]
\* a declares retry_target naming b
RetryToB == RunNodes(Absent, Absent, Absent, Absent, "box", "Msquare", "b")
\* a declares a retry_target naming no node and the legacy attribute naming b
GhostThenLegacy ==
    [PlainNodes EXCEPT ![2] = WithFallback(NodeDecl("a", "box", Absent, Absent, "ghost"), "b")]

\* b carries a type that no handler is registered for
Unregistered == [PlainNodes EXCEPT ![3] = Typed(@, "custom")]
\* one start by type alone: start is a box with type=start
StartByType ==
    [PlainNodes EXCEPT ![1] = Typed(NodeDecl("start", "box", Absent, Absent, Absent), "start")]

Plain(source, target) == EdgeDecl(source, target, Absent, Absent, Absent)

Chain1 == <<Plain("start", "exit")>>
Chain2 == <<Plain("start", "a"), Plain("a", "exit")>>
Chain3 == <<Plain("start", "a"), Plain("a", "b"), Plain("b", "exit")>>
Loop == <<Plain("start", "a"),
          EdgeDecl("a", "a", Absent, "again", Absent),
          EdgeDecl("a", "exit", Absent, Absent, "5")>>
Guarded == <<Plain("start", "a"),
             EdgeDecl("a", "exit", "true", Absent, Absent),
             EdgeDecl("a", "b", Quote(ExprKeyIsOne), Absent, "5"),
             EdgeDecl("b", "exit", "false", Absent, Absent)>>
DeadEnd == <<Plain("start", "a")>>
Dangling == <<Plain("start", "a"), Plain("a", "ghost")>>

Fallback == <<Plain("start", "a"), Plain("b", "exit")>>
FallbackOrExit == <<Plain("start", "a"), Plain("a", "exit"), Plain("b", "exit")>>

EdgeLists == {Chain1, Chain2, Chain3, Loop, Guarded, DeadEnd, Dangling}

GateChoices == {<<Absent, Absent>>, <<"true", Absent>>, <<Absent, "true">>}

RunDocuments ==
    {Document(RunNodes(max_a, Absent, gates[1], gates[2], "box", "Msquare", Absent),
              edges, Absent) :
        max_a \in {Absent, "-1", "1"}, gates \in GateChoices, edges \in EdgeLists}
    \cup {Document(RunNodes(Absent, "1", "true", "true", "box", "Msquare", Absent),
                   edges, Absent) : edges \in {Chain1, Loop}}
    \cup {Document(RunNodes(max_a, Absent, Absent, Absent, "box", "Msquare", "b"),
                   Fallback, Absent) : max_a \in {Absent, "1"}}
    \cup {Document(RunNodes(Absent, Absent, Absent, Absent, "Mdiamond", "Msquare", Absent),
                   Chain2, Absent),
          Document(RunNodes(Absent, Absent, Absent, Absent, "box", "box", Absent),
                   Chain2, Absent)}
    \cup {Document(nodes, Chain2, Absent) : nodes \in {StartRetyped, SecondExit, StartByType}}
    \cup {Document(Unregistered, Chain3, Absent)}
    \cup {Document(RunNodes("1", Absent, Absent, Absent, "box", "Msquare", Absent), Chain2,
                   goal) : goal \in {Quote("ship"), "5"}}
    \cup {Document(nodes, FallbackOrExit, Absent) :
             nodes \in {LegacyTarget, RetryToB, GhostThenLegacy}}

SetsKey == [NoUpdates EXCEPT !["k"] = IntV(1)]

RunOutcomes ==
    {Outcome(status, NoUpdates, "", <<>>) : status \in StageStatus}
    \cup {Outcome("success", SetsKey, "again", <<>>),
          Outcome("success", NoUpdates, "", <<"ghost", "exit">>),
          Outcome("fail", NoUpdates, "", <<"a">>),
          Outcome("retry", SetsKey, "again", <<"ghost">>)}

Init ==
    /\ graph \in {ParseDotData(doc) : doc \in RunDocuments}
    /\ context = EmptyContext
    /\ pc = "init"
    /\ current = ""
    /\ retries = [id \in {} |-> 0]
    /\ satisfied = {}
    /\ result = NoResult
    /\ raised = NoError
    /\ outcomes = <<>>
    /\ arg = NoOutcome
    /\ picked = NoNode
    /\ returned = NoResult
    /\ twin = NoTwin
    /\ lock = NoThread
    /\ logs = <<>>
    /\ threads = NoThreads

Next ==
    \/ Start
    \/ StartFail
    \/ LookupFail
    \/ DispatchFail
    \/ \E outcome \in RunOutcomes : Retry(outcome)
    \/ \E outcome \in RunOutcomes : Finish(outcome)
    \/ \E outcome \in RunOutcomes : Route(outcome)
    \/ \E outcome \in RunOutcomes : Abort(outcome)

Spec == Init /\ [][Next]_vars

----------------------------------------------------------------------------
(* core/context.py: one Context shared by threads.  Every method body runs *)
(* inside `with self._lock`; the copies and the merge are taken one key at *)
(* a time, as the interpreter may switch threads between any two of them.  *)

\* run's own state, which the threads of this section never touch
runvars == <<graph, pc, current, retries, satisfied, result, raised, outcomes, arg, picked,
             returned, twin>>

Threads == {"t1", "t2", "t3"}

ContextOps == {"get", "set", "update", "snapshot", "append_log", "logs", "clone"}

\* what each thread writes: its own key for set, its own value, its own log entry
SetKeyOf(t) == RetryKey(CASE t = "t1" -> "a" [] t = "t2" -> "b" [] OTHER -> "exit")
ValueOf(t) == IntV(CASE t = "t1" -> 1 [] t = "t2" -> 2 [] OTHER -> 3)
EntryOf(t) == "entry of " \o t

\* the keys of the entries every update call passes, in dict order
UpdateKeys == <<"graph.goal", "k">>

\* the keys of _values in the order a copy visits them
CopyKeys == <<"graph.goal", "k", RetryKey("start"), RetryKey("a"), RetryKey("b"),
              RetryKey("exit")>>

\* a thread about to call op: at is "call", "body", "exit" or "done"; values and
\* entries are the dict and the list the call builds and returns
NewThread(op) ==
    [op |-> op, at |-> "call", step |-> 1, values |-> EmptyContext, entries |-> <<>>]

InitContext ==
    /\ threads \in [Threads -> {NewThread(op) : op \in ContextOps}]
    /\ lock = NoThread
    /\ logs = <<>>
    /\ context = EmptyContext
    /\ graph = ParseDotData(PickDocument(<<>>))
    /\ pc = "context"
    /\ current = ""
    /\ retries = [id \in {} |-> 0]
    /\ satisfied = {}
    /\ result = NoResult
    /\ raised = NoError
    /\ outcomes = <<>>
    /\ arg = NoOutcome
    /\ picked = NoNode
    /\ returned = NoResult
    /\ twin = NoTwin

\* a lock that a thread appending to the log does not wait for
MayEnterWhileLogging(owner, op) == owner = NoThread \/ op = "append_log"

\* a lock that a thread taking a snapshot does not wait for
MayEnterSnapshotUnlocked(owner, op) == owner = NoThread \/ op = "snapshot"

\* self._lock can be acquired by a thread that does not hold it
MayEnter(owner, op) == owner = NoThread

\* `with self._lock:` is entered
Enter(t) ==
    /\ threads[t].at = "call"
    /\ MayEnter(lock, threads[t].op)
    /\ lock' = t
    /\ threads' = [threads EXCEPT ![t].at = "body"]
    /\ UNCHANGED <<context, logs>>
    /\ UNCHANGED runvars

\* `with self._lock:` is left and the call returns
Leave(t) ==
    /\ threads[t].at = "exit"
    /\ lock' = NoThread
    /\ threads' = [threads EXCEPT ![t].at = "done"]
    /\ UNCHANGED <<context, logs>>
    /\ UNCHANGED runvars

\* get: self._values.get(key, default)
Get(t) ==
    /\ threads[t].at = "body" /\ threads[t].op = "get"
    /\ threads' = [threads EXCEPT ![t].at = "exit", ![t].values["k"] = context["k"]]
    /\ UNCHANGED <<context, lock, logs>>
    /\ UNCHANGED runvars

\* set: self._values[key] = value
Set(t) ==
    /\ threads[t].at = "body" /\ threads[t].op = "set"
    /\ context' = ContextSet(context, SetKeyOf(t), ValueOf(t))
    /\ threads' = [threads EXCEPT ![t].at = "exit"]
    /\ UNCHANGED <<lock, logs>>
    /\ UNCHANGED runvars

\* update: self._values.update(entries), one entry merged
UpdateStep(t) ==
    LET i == threads[t].step
    IN  /\ threads[t].at = "body" /\ threads[t].op = "update"
        /\ context' = ContextSet(context, UpdateKeys[i], ValueOf(t))
        /\ threads' = [threads EXCEPT ![t].step = i + 1,
                                      ![t].at = IF i = Len(UpdateKeys) THEN "exit" ELSE "body"]
        /\ UNCHANGED <<lock, logs>>
        /\ UNCHANGED runvars

\* snapshot and clone: dict(self._values), one key copied
CopyStep(t) ==
    LET i == threads[t].step
    IN  /\ threads[t].at = "body" /\ threads[t].op \in {"snapshot", "clone"}
        /\ i <= Len(CopyKeys)
        /\ threads' = [threads EXCEPT
                          ![t].step = i + 1,
                          ![t].values[CopyKeys[i]] = context[CopyKeys[i]],
                          ![t].at = IF i = Len(CopyKeys) /\ threads[t].op = "snapshot"
                                    THEN "exit" ELSE "body"]
        /\ UNCHANGED <<context, lock, logs>>
        /\ UNCHANGED runvars

\* clone: cloned._logs = list(self._logs)
CloneLogs(t) ==
    /\ threads[t].at = "body" /\ threads[t].op = "clone"
    /\ threads[t].step = Len(CopyKeys) + 1
    /\ threads' = [threads EXCEPT ![t].at = "exit", ![t].entries = logs]
    /\ UNCHANGED <<context, lock, logs>>
    /\ UNCHANGED runvars

\* append_log: self._logs.append(entry)
AppendLog(t) ==
    /\ threads[t].at = "body" /\ threads[t].op = "append_log"
    /\ logs' = Append(logs, EntryOf(t))
    /\ threads' = [threads EXCEPT ![t].at = "exit"]
    /\ UNCHANGED <<context, lock>>
    /\ UNCHANGED runvars

\* logs: list(self._logs)
Logs(t) ==
    /\ threads[t].at = "body" /\ threads[t].op = "logs"
    /\ threads' = [threads EXCEPT ![t].at = "exit", ![t].entries = logs]
    /\ UNCHANGED <<context, lock, logs>>
    /\ UNCHANGED runvars

NextContext ==
    \/ \E t \in Threads : Enter(t)
    \/ \E t \in Threads : Leave(t)
    \/ \E t \in Threads : Get(t)
    \/ \E t \in Threads : Set(t)
    \/ \E t \in Threads : UpdateStep(t)
    \/ \E t \in Threads : CopyStep(t)
    \/ \E t \in Threads : CloneLogs(t)
    \/ \E t \in Threads : AppendLog(t)
    \/ \E t \in Threads : Logs(t)

SpecContext == InitContext /\ [][NextContext]_vars

----------------------------------------------------------------------------
(* core/engine.py: run with handlers that always return.  The loop is        *)
(* synchronous and has no waiting point, so a run that can take a step takes *)
(* it: weak fairness on the step relation.                                   *)

\* start -> a -> exit, three nodes
ShortNodes(max_a) ==
    <<NodeDecl("start", "Mdiamond", Absent, Absent, Absent),
      NodeDecl("a", "box", Absent, max_a, Absent),
      NodeDecl("exit", "Msquare", Absent, Absent, Absent)>>

LiveDocuments ==
    {Document(ShortNodes(max_a), edges, Absent) :
        max_a \in {Absent, "-1", "1"}, edges \in {Chain2, DeadEnd, Dangling}}
    \cup {Document(nodes, Chain3, Absent) : nodes \in {PlainNodes, Unregistered}}
    \cup {Document(PlainNodes, edges, Absent) : edges \in {Loop, Guarded}}
    \cup {Document(RetryToB, FallbackOrExit, Absent), Document(SecondExit, Chain2, Absent)}

InitLive ==
    /\ graph \in {ParseDotData(doc) : doc \in LiveDocuments}
    /\ context = EmptyContext
    /\ pc = "init"
    /\ current = ""
    /\ retries = [id \in {} |-> 0]
    /\ satisfied = {}
    /\ result = NoResult
    /\ raised = NoError
    /\ outcomes = <<>>
    /\ arg = NoOutcome
    /\ picked = NoNode
    /\ returned = NoResult
    /\ lock = NoThread
    /\ logs = <<>>
    /\ threads = NoThreads
    /\ twin = NoTwin

SpecLive == InitLive /\ [][Next]_vars /\ WF_vars(Next)

----------------------------------------------------------------------------
(* core/engine.py: a second run of the same graph that receives the same    *)
(* outcomes as the first, while its handlers tamper with every Context key   *)
(* that no guard reads.  The two runs take turns, one execution at a time.   *)

\* the context keys the guard expressions read
GuardKeys == {"k"}

\* what a handler of the second run does to the Context besides its outcome:
\* remove the keys, overwrite them, or put the node's retry counter key among
\* its outcome's context updates
TamperKinds == {"delete", "overwrite", "update"}

HandlerTampers(ctx, kind) ==
    [key \in CtxKeys |->
        IF key \in GuardKeys \/ kind = "update" THEN ctx[key]
        ELSE IF kind = "delete" THEN Missing
        ELSE IntV(5)]

TwinOutcome(outcome, kind, node_id) ==
    IF kind = "update"
    THEN [outcome EXCEPT !.context_updates[RetryKey(node_id)] = IntV(5)]
    ELSE outcome

\* a count read back from the retry counter key of the Context
CountReadFromContext(r, ctx, node_id) ==
    IF ctx[RetryKey(node_id)].ty = "int" THEN ctx[RetryKey(node_id)].i ELSE 0

\* count = retries.get(node.id, 0): the Context is not consulted
CountRead(r, ctx, node_id) == RetryCount(r, node_id)

\* run before its loop
TwinStarted ==
    [pc |-> "running", current |-> StartNode(graph),
     context |-> ContextSet(EmptyContext, "graph.goal", StrV(Goal(graph))),
     retries |-> [id \in {} |-> 0], completed |-> <<>>]

\* one iteration of run's loop on the second run
TwinAfter(tw, outcome0, kind) ==
    LET node == graph.nodes[tw.current]
        outcome == TwinOutcome(outcome0, kind, tw.current)
        merged == ContextAfter(HandlerTampers(tw.context, kind), outcome)
        count == CountRead(tw.retries, merged, tw.current)
        next_node == PickNextNode(node, graph, merged, outcome)
        done == [tw EXCEPT !.completed = Append(@, tw.current), !.context = merged]
    IN  IF Retryable(outcome.status) /\ BelowBudget(count, MaxRetriesOf(node))
        THEN [done EXCEPT
                 !.retries = [id \in DOMAIN tw.retries \cup {tw.current} |->
                                 IF id = tw.current THEN count + 1 ELSE tw.retries[id]],
                 !.context = ContextSet(merged, RetryKey(tw.current), IntV(count + 1))]
        ELSE IF tw.current = ExitNode(graph) THEN [done EXCEPT !.pc = "returned"]
        ELSE IF next_node \in {NoNode, GuardRaised} THEN [done EXCEPT !.pc = "raised"]
        ELSE [done EXCEPT !.current = next_node]

TwinStart ==
    /\ twin.pc = "none"
    /\ pc \notin {"init", "raised"}
    /\ twin' = TwinStarted
    /\ UNCHANGED <<graph, context, pc, current, retries, satisfied, result, raised, outcomes,
                   arg, picked, returned>>
    /\ UNCHANGED ctxvars

\* the second run executes its current node and gets the outcome the first
\* run got at that execution
TwinFollows(kind) ==
    /\ twin.pc = "running"
    /\ Len(twin.completed) < Len(outcomes)
    /\ HasNode(graph, twin.current)
    /\ HasHandler(graph.nodes[twin.current])
    /\ twin' = TwinAfter(twin, outcomes[Len(twin.completed) + 1], kind)
    /\ UNCHANGED <<graph, context, pc, current, retries, satisfied, result, raised, outcomes,
                   arg, picked, returned>>
    /\ UNCHANGED ctxvars

TwinDocuments ==
    {Document(RunNodes("1", Absent, Absent, Absent, "box", "Msquare", Absent), edges, Absent) :
        edges \in {Loop, Guarded, Dangling}}
    \cup {Document(RunNodes("1", Absent, Absent, Absent, "box", "Msquare", "b"), Fallback,
                   Absent),
          Document(RunNodes(Absent, "1", Absent, Absent, "box", "Msquare", Absent), Chain1,
                   Absent)}

InitTwin ==
    /\ graph \in {ParseDotData(doc) : doc \in TwinDocuments}
    /\ context = EmptyContext
    /\ pc = "init"
    /\ current = ""
    /\ retries = [id \in {} |-> 0]
    /\ satisfied = {}
    /\ result = NoResult
    /\ raised = NoError
    /\ outcomes = <<>>
    /\ arg = NoOutcome
    /\ picked = NoNode
    /\ returned = NoResult
    /\ lock = NoThread
    /\ logs = <<>>
    /\ threads = NoThreads
    /\ twin = NoTwin

\* the first run waits for the second before it executes another node
TwinReady == twin.pc # "none" /\ Len(twin.completed) = Len(outcomes)

NextTwin ==
    \/ Start
    \/ LookupFail
    \/ TwinReady /\ \E outcome \in RunOutcomes : Retry(outcome)
    \/ TwinReady /\ \E outcome \in RunOutcomes : Finish(outcome)
    \/ TwinReady /\ \E outcome \in RunOutcomes : Route(outcome)
    \/ TwinReady /\ \E outcome \in RunOutcomes : Abort(outcome)
    \/ TwinStart
    \/ \E kind \in TamperKinds : TwinFollows(kind)

SpecTwin == InitTwin /\ [][NextTwin]_vars

----------------------------------------------------------------------------
(* Claims about _pick_next_node, checked under SpecPick *)

PickOut == Outgoing(graph, current)

\* an edge is eligible when it has no guard to evaluate or the evaluation of
\* its guard yields true
GuardTrue(edge, ctx) ==
    \/ ~Truthy(edge.attrs["condition"])
    \/ PyEval(edge.attrs["condition"], ctx, graph.graph_attrs) = "true"

IsEligible(edge) == GuardTrue(edge, context)

EligibleAt == {j \in DOMAIN PickOut : IsEligible(PickOut[j])}

\* the weight the spec gives an edge: its weight attribute, 0 when absent
DeclaredWeight(edge) == IF edge.attrs["weight"] = NoneV THEN 0 ELSE edge.attrs["weight"].i

\* the first-declared edge among the eligible edges of highest weight
BestEligible ==
    CHOOSE j \in EligibleAt :
        /\ \A m \in EligibleAt : DeclaredWeight(PickOut[m]) <= DeclaredWeight(PickOut[j])
        /\ \A m \in EligibleAt : m < j => DeclaredWeight(PickOut[m]) < DeclaredWeight(PickOut[j])

HasLabel(edge, label) == label # "" /\ edge.attrs["label"] = StrV(label)

LabelledEligibleAt == {j \in EligibleAt : HasLabel(PickOut[j], arg.preferred_label)}

FirstOf(S) == CHOOSE j \in S : \A m \in S : j <= m

\* C4: with no applicable preferred label, the edge taken is the eligible edge
\* of highest weight (absent weight = 0), the first-declared one on a tie.
C4_HighestWeightFirstDeclared ==
    (pc = "picked" /\ LabelledEligibleAt = {} /\ EligibleAt # {})
        => picked = PickOut[BestEligible].target

\* C4 witness: the later-declared of two eligible edges has the higher weight and is taken.
C4_Witness ==
    /\ pc = "picked"
    /\ LabelledEligibleAt = {}
    /\ \E j \in EligibleAt : \E m \in EligibleAt :
          /\ j < m
          /\ DeclaredWeight(PickOut[j]) < DeclaredWeight(PickOut[m])
          /\ picked = PickOut[m].target

\* C5: an eligible edge carrying the Outcome's preferred label is taken, the
\* first-declared such edge, whatever the weights; when the label is only on
\* edges whose guard is not true, the highest-weight eligible edge is taken.
C5_PreferredLabelWins ==
    (pc = "picked" /\ arg.preferred_label # "")
        => /\ LabelledEligibleAt # {} => picked = PickOut[FirstOf(LabelledEligibleAt)].target
           /\ \A j \in DOMAIN PickOut :
                 (HasLabel(PickOut[j], arg.preferred_label) /\ ~IsEligible(PickOut[j])
                    /\ LabelledEligibleAt = {})
                 => /\ picked # PickOut[j].target
                    /\ EligibleAt # {} => picked = PickOut[BestEligible].target

\* C5 witness: the labelled edge is taken although another eligible edge weighs more.
C5_Witness ==
    /\ pc = "picked"
    /\ LabelledEligibleAt # {}
    /\ picked = PickOut[FirstOf(LabelledEligibleAt)].target
    /\ \E m \in EligibleAt :
          DeclaredWeight(PickOut[m]) > DeclaredWeight(PickOut[FirstOf(LabelledEligibleAt)])

\* the edges whose guard is evaluated and fails
FailingGuardAt ==
    {j \in DOMAIN PickOut :
        /\ Truthy(PickOut[j].attrs["condition"])
        /\ PyEval(PickOut[j].attrs["condition"], context, graph.graph_attrs) = "raise"}

\* C6: a guard whose evaluation fails never raises out of the selection; its
\* edge is ineligible, so it is not the edge taken.
C6_GuardNeverRaises ==
    pc = "picked"
        => /\ picked # GuardRaised
           /\ \A j \in FailingGuardAt : picked # PickOut[j].target

\* C6 witness: a guard reads a context key that is not set, and the selection
\* goes on to take another edge.
C6_Witness ==
    /\ pc = "picked"
    /\ context["k"] = Missing
    /\ \E j \in DOMAIN PickOut : PickOut[j].attrs["condition"] = StrV(ExprKeyIsOne)
    /\ picked \notin {NoNode, GuardRaised}

\* what a decoded condition attribute says: no guard, an empty guard, a
\* literal true/false, or an expression over context and graph
GuardHolds(edge) ==
    LET c == edge.attrs["condition"]
    IN  CASE c.ty = "none" -> TRUE
          [] c = StrV("") -> TRUE
          [] c.ty = "bool" -> c.i = 1
          [] OTHER -> PyEval(c, context, graph.graph_attrs) = "true"

\* C7: selection considers exactly the edges whose guard is true: an edge
\* whose guard is false is never taken, and when some guard is true (or
\* absent, or empty) an edge is taken, for every decoded form of the guard.
C7_GuardedSelection ==
    pc = "picked"
        => /\ \A j \in DOMAIN PickOut : ~GuardHolds(PickOut[j]) => picked # PickOut[j].target
           /\ (\E j \in DOMAIN PickOut : GuardHolds(PickOut[j])) => picked # NoNode

----------------------------------------------------------------------------
(* Claims about PipelineEngine.run, checked under Spec *)

Events == result.events
Completed == result.completed_nodes
Started == pc # "init"

LastEvent == Events[Len(Events)]
LastOutcome == outcomes[Len(outcomes)]

CountOf(id, events) == Cardinality({j \in DOMAIN events : events[j].node = id})

AllStatus(id, events, status) ==
    \A j \in DOMAIN events : events[j].node = id => events[j].status = status

\* the nodes that declare a goal gate
DeclaredGates == {id \in DOMAIN graph.nodes : Truthy(graph.nodes[id].attrs["goal_gate"])}

\* the nodes with a SUCCESS event in the log
SucceededNodes == {Events[j].node : j \in {m \in DOMAIN Events : Events[m].status = "success"}}

\* C1: a returned RunResult has goal_gate_satisfied true exactly when every
\* node that declares a goal gate, reachable or not, has a SUCCESS event in
\* the event log; no other status counts, and a later failure of the node
\* does not take the gate back.
C1_GoalGateIffSuccess ==
    pc = "returned" => (result.goal_gate_satisfied <=> DeclaredGates \subseteq SucceededNodes)

\* C1 witness: a gate node succeeds, fails later in the same run, and the
\* result reports the gates satisfied.
C1_Witness ==
    /\ pc = "returned"
    /\ result.goal_gate_satisfied
    /\ \E j \in DOMAIN Events : \E m \in DOMAIN Events :
          /\ j < m
          /\ Events[j].node \in DeclaredGates
          /\ Events[j].status = "success"
          /\ Events[m].node = Events[j].node
          /\ Events[m].status = "fail"

\* the declared max_retries of a node, 0 when the attribute is absent
DeclaredMaxRetries(id) ==
    IF graph.nodes[id].attrs["max_retries"] = NoneV THEN 0
    ELSE graph.nodes[id].attrs["max_retries"].i

Max(x, y) == IF x >= y THEN x ELSE y

\* C2 as claimed: the retry counter of every node is at most its declared max_retries.
C2_CounterAtMostDeclared ==
    Started => \A id \in DOMAIN graph.nodes :
                  RetryCount(retries, id) <= DeclaredMaxRetries(id)

\* C2: the retry counter of every node is at most its declared max_retries,
\* and at most 0 when max_retries is absent or negative.
C2_CounterAtMostBudget ==
    Started => \A id \in DOMAIN graph.nodes :
                  RetryCount(retries, id) <= Max(DeclaredMaxRetries(id), 0)

\* C2 witness: a node has used its whole budget and has failed once more.
C2_Witness ==
    /\ pc = "running"
    /\ \E id \in DOMAIN graph.nodes :
          /\ DeclaredMaxRetries(id) = 1
          /\ RetryCount(retries, id) = 1
          /\ CountOf(id, Events) = 2
          /\ AllStatus(id, Events, "fail")
          /\ current # id

\* a step in which a handler is executed
Executed == Len(result'.events) = Len(result.events) + 1

\* every execution of the node so far has been retried
NeverDecided(id) == CountOf(id, Events) = RetryCount(retries, id)

ExampleGraph ==
    /\ graph.edges = ParseDotData(Document(<<>>, Chain2, Absent)).edges
    /\ DeclaredMaxRetries("a") = 1
    /\ DeclaredMaxRetries("exit") = 0
    /\ DeclaredGates = {}

NoSuggestionTaken ==
    \A j \in DOMAIN outcomes :
        \A m \in DOMAIN outcomes[j].suggested_next_ids :
            outcomes[j].suggested_next_ids[m] \notin DOMAIN graph.nodes

\* C3 as claimed: a node with max_retries = N that always fails is executed
\* exactly N+1 times before the first step that is not a retry of it.
C3_ExactlyNPlusOne ==
    [][\A id \in DOMAIN graph.nodes :
          (pc = "running" /\ current = id /\ Executed /\ AllStatus(id, result'.events, "fail"))
          => /\ retries' # retries => CountOf(id, result'.events) <= DeclaredMaxRetries(id)
             /\ (retries' = retries /\ NeverDecided(id))
                   => CountOf(id, result'.events) = DeclaredMaxRetries(id) + 1]_vars

\* C3: a node with max_retries = N that always fails is executed exactly
\* max(N, 0) + 1 times from its first arrival before the first step that is
\* not a retry of it: a step that routes away, raises the routing error or,
\* at the exit node, returns. In start -> a[max_retries=1] -> exit with a
\* always failing, start and exit succeeding and no suggested id taken, the
\* result has completed_nodes [start, a, a, exit] and the goal satisfied.
C3_ExactlyBudgetPlusOne ==
    /\ [][\A id \in DOMAIN graph.nodes :
            (pc = "running" /\ current = id /\ Executed /\ AllStatus(id, result'.events, "fail"))
            => /\ retries' # retries
                    => CountOf(id, result'.events) <= Max(DeclaredMaxRetries(id), 0)
               /\ (retries' = retries /\ NeverDecided(id))
                    => /\ CountOf(id, result'.events) = Max(DeclaredMaxRetries(id), 0) + 1
                       /\ \/ pc' = "running" /\ current' # NoNode
                          \/ pc' = "raised" /\ raised'.kind = "routing"
                          \/ pc' = "returned" /\ id = ExitNode(graph)]_vars
    /\ [](( /\ pc = "returned"
            /\ ExampleGraph
            /\ NoSuggestionTaken
            /\ AllStatus("a", Events, "fail")
            /\ AllStatus("start", Events, "success")
            /\ AllStatus("exit", Events, "success"))
          => /\ Completed = <<"start", "a", "a", "exit">>
             /\ result.goal_gate_satisfied)

\* C3 witness: the example run start, a, a, exit with a failing twice.
C3_Witness ==
    /\ pc = "returned"
    /\ ExampleGraph
    /\ Completed = <<"start", "a", "a", "exit">>
    /\ Events[2].status = "fail"
    /\ Events[3].status = "fail"
    /\ RetryCount(retries, "a") = 1
    /\ result.goal_gate_satisfied

\* the chain of single unconditional edges from id to the exit node, <<>> when
\* what starts at id is no such chain
RECURSIVE ChainFrom(_, _)
ChainFrom(id, fuel) ==
    IF id = ExitNode(graph) THEN <<id>>
    ELSE LET out == Outgoing(graph, id)
         IN  IF \/ fuel = 0
                \/ Len(out) # 1
                \/ out[1].attrs["condition"] # NoneV
                \/ out[1].target \notin DOMAIN graph.nodes
             THEN <<>>
             ELSE LET rest == ChainFrom(out[1].target, fuel - 1)
                  IN  IF rest = <<>> THEN <<>> ELSE <<id>> \o rest

TheChain ==
    IF WellFormed(graph)
    THEN ChainFrom(StartNode(graph), Cardinality(DOMAIN graph.nodes))
    ELSE <<>>

\* every node of the chain has a handler, and every handler executed so far
\* returned SUCCESS
AllSucceeded ==
    /\ \A j \in DOMAIN TheChain : HasHandler(graph.nodes[TheChain[j]])
    /\ \A j \in DOMAIN Events : Events[j].status = "success"

IsPrefix(p, q) == Len(p) <= Len(q) /\ SubSeq(q, 1, Len(p)) = p

\* C8 as claimed: on a chain from start to exit with every handler returning
\* SUCCESS, the run returns with completed_nodes equal to the chain.
C8_ChainCompletes ==
    (Started /\ TheChain # <<>> /\ AllSucceeded)
        => /\ pc # "raised"
           /\ pc = "returned" => Completed = TheChain

\* C8: on a chain from start to exit with every handler returning SUCCESS and
\* no Outcome suggesting an id that names a node of the graph, the run walks
\* the chain in order without raising and returns with completed_nodes equal
\* to the chain.
C8_ChainCompletesUnsuggested ==
    (Started /\ TheChain # <<>> /\ AllSucceeded /\ NoSuggestionTaken)
        => /\ pc # "raised"
           /\ IsPrefix(Completed, TheChain)
           /\ pc = "returned" => Completed = TheChain

\* C8 witness: the run over the chain start, a, b, exit has returned.
C8_Witness ==
    /\ pc = "returned"
    /\ TheChain = <<"start", "a", "b", "exit">>
    /\ AllSucceeded
    /\ NoSuggestionTaken
    /\ Completed = TheChain

\* the node whose handler ran last
LastNode == LastEvent.node

\* C9: a FAIL or RETRY outcome at a non-exit node that is not retried (its
\* retries are used up) does not end the run when an outgoing edge is
\* eligible: the step raises nothing and the run goes on from the node
\* selected.
C9_FailureDoesNotAbort ==
    [][(/\ pc = "running"
        /\ Executed
        /\ outcomes'[Len(outcomes')].status \in {"fail", "retry"}
        /\ retries' = retries
        /\ current # ExitNode(graph)
        /\ \E j \in DOMAIN Outgoing(graph, current) :
              GuardTrue(Outgoing(graph, current)[j], context'))
       => /\ pc' = "running"
          /\ raised' = NoError
          /\ current' # NoNode]_vars

\* C9 witness: node a has failed, used its retry, failed again, and the run
\* has moved on to the exit node over a's plain edge.
C9_Witness ==
    /\ pc = "running"
    /\ Events # <<>>
    /\ LastNode = "a"
    /\ LastEvent.status = "fail"
    /\ LastOutcome.suggested_next_ids = <<>>
    /\ DeclaredMaxRetries("a") = 1
    /\ RetryCount(retries, "a") = 1
    /\ CountOf("a", Events) = 2
    /\ current = "exit"

\* the retry target a FAIL outcome routes to, NoNode when none applies
AppliedRetryTarget(id, status) ==
    LET named == RetryTarget(graph.nodes[id])
    IN  IF status = "fail" /\ Truthy(named) /\ PyStr(named) \in DOMAIN graph.nodes
        THEN PyStr(named)
        ELSE NoNode

SuggestsExisting(outcome) ==
    \E m \in DOMAIN outcome.suggested_next_ids :
        outcome.suggested_next_ids[m] \in DOMAIN graph.nodes

\* C10: when a handler has run at a non-exit node and the node is not retried,
\* the Outcome suggests no existing node, no retry target applies and no
\* outgoing edge is eligible, the step raises the routing error naming the
\* node and nothing is returned, whatever the status.
C10_NoEligibleEdgeIsFatal ==
    [][(/\ pc = "running"
        /\ Executed
        /\ retries' = retries
        /\ current # ExitNode(graph)
        /\ ~SuggestsExisting(outcomes'[Len(outcomes')])
        /\ AppliedRetryTarget(current, outcomes'[Len(outcomes')].status) = NoNode
        /\ \A j \in DOMAIN Outgoing(graph, current) :
              ~GuardTrue(Outgoing(graph, current)[j], context'))
       => /\ pc' = "raised"
          /\ raised' = [kind |-> "routing", node |-> current]]_vars

\* C10 witness: a SUCCESS outcome at a node that has outgoing edges, none of
\* them eligible, has ended the run with the routing error.
C10_Witness ==
    /\ pc = "raised"
    /\ raised = [kind |-> "routing", node |-> "a"]
    /\ LastEvent.status = "success"
    /\ Outgoing(graph, "a") # <<>>

----------------------------------------------------------------------------
(* Claims about what the caller of run holds once run has ended *)

\* every context update a handler returned so far is in the caller's Context
UpdatesMerged ==
    \A i \in 1..Len(outcomes) :
        \A key \in CtxKeys :
            outcomes[i].context_updates[key] # Missing => context[key] # Missing

\* C11: after a run that ended with the routing error the caller can read the
\* completed-node sequence, the event log so far and the accumulated context.
C11_ProgressInspectable ==
    (pc = "raised" /\ raised.kind = "routing") =>
        /\ returned.completed_nodes = Completed
        /\ returned.events = Events
        /\ UpdatesMerged

----------------------------------------------------------------------------
(* Claims about Context under threads, checked under SpecContext *)

Callers(op) == {t \in DOMAIN threads : threads[t].op = op}
Done(t) == threads[t].at = "done"
AllDone == \A t \in DOMAIN threads : Done(t)

\* the dict shows all of thread u's bulk update or none of it
AllOrNone(values, u) ==
    \A i, j \in DOMAIN UpdateKeys :
        values[UpdateKeys[i]] = ValueOf(u) <=> values[UpdateKeys[j]] = ValueOf(u)

\* C12: every snapshot a thread got back holds, for each bulk update of
\* another thread, either all of that update's keys with its values or none of
\* its effect, whatever the interleaving.
C12_SnapshotPointInTime ==
    \A t \in Callers("snapshot") :
        Done(t) => \A u \in Callers("update") : AllOrNone(threads[t].values, u)

\* C12 witness: a snapshot was returned between two bulk updates: it holds the
\* whole first update, and the second update has since been merged.
C12_Witness ==
    \E t \in Callers("snapshot") : \E u, w \in Callers("update") :
        /\ u # w
        /\ Done(t) /\ Done(u) /\ Done(w)
        /\ \A i \in DOMAIN UpdateKeys :
              /\ threads[t].values[UpdateKeys[i]] = ValueOf(u)
              /\ context[UpdateKeys[i]] = ValueOf(w)

\* the threads inside a `with self._lock` block
Inside == {t \in DOMAIN threads : threads[t].at \in {"body", "exit"}}

\* C13: at most one thread is inside a Context method at a time, for all seven
\* methods; and once every call has returned, the values hold every key that
\* was set or bulk-updated and the log holds every appended entry exactly once.
C13_NoLostUpdates ==
    /\ Cardinality(Inside) <= 1
    /\ \A t \in Inside : lock = t
    /\ AllDone =>
          /\ \A t \in Callers("set") : context[SetKeyOf(t)] = ValueOf(t)
          /\ Callers("update") # {} =>
                \A i \in DOMAIN UpdateKeys :
                    context[UpdateKeys[i]] \in {ValueOf(u) : u \in Callers("update")}
          /\ \A t \in Callers("append_log") :
                Cardinality({j \in DOMAIN logs : logs[j] = EntryOf(t)}) = 1
          /\ Len(logs) = Cardinality(Callers("append_log"))

\* C13 witness: a set, a bulk update and a log append from three threads have
\* all returned.
C13_Witness ==
    /\ AllDone
    /\ Callers("set") # {} /\ Callers("update") # {} /\ Callers("append_log") # {}

----------------------------------------------------------------------------
(* Claims about the start and exit checks, checked under Spec *)

\* the nodes whose resolved handler type is type
TypedAs(type) == {id \in DOMAIN graph.nodes : HandlerType(graph.nodes[id]) = type}

OneStartOneExit == Cardinality(TypedAs("start")) = 1 /\ Cardinality(TypedAs("exit")) = 1

\* C14: run begins only on a graph with exactly one start-typed and one
\* exit-typed node, at that start node and with that exit node; on any other
\* graph it raises the structural error with no handler executed, no event
\* recorded and no context key written.
C14_StructuralCheckFirst ==
    /\ (pc # "init" /\ ~OneStartOneExit) =>
          /\ pc = "raised" /\ raised.kind = "structural"
          /\ outcomes = <<>> /\ Events = <<>> /\ Completed = <<>>
          /\ context = EmptyContext
    /\ (pc # "init" /\ OneStartOneExit) =>
          /\ raised.kind # "structural"
          /\ TypedAs("start") = {StartNode(graph)} /\ TypedAs("exit") = {ExitNode(graph)}
          /\ Events # <<>> => Events[1].node \in TypedAs("start")

\* C14 witness: run has raised the structural error on a graph whose only
\* Mdiamond node is typed otherwise, so that no node is start-typed.
C14_Witness ==
    /\ pc = "raised" /\ raised.kind = "structural"
    /\ TypedAs("start") = {}
    /\ \E id \in DOMAIN graph.nodes : graph.nodes[id].attrs["shape"] = StrV("Mdiamond")

\* C15: every constructed graph has exactly one start-typed node and exactly
\* one exit-typed node.
C15_ConstructedGraphsWellFormed == OneStartOneExit

----------------------------------------------------------------------------
(* Claims about how a run ends, checked under Spec *)

\* the retry policy re-executes node id on this outcome
RetryDue(id, outcome) ==
    /\ outcome.status \in {"fail", "retry"}
    /\ RetryCount(retries, id) < DeclaredMaxRetries(id)

\* the nodes in completed once the exit node has been executed are all the exit node
OnlyExitAfterExit(completed) ==
    \A i, j \in DOMAIN completed :
        (i < j /\ completed[i] \in TypedAs("exit")) => completed[j] \in TypedAs("exit")

\* run returns only right after an execution of the exit node that the retry
\* policy does not repeat, with completed_nodes from the start node to the exit
\* node and nothing but the exit node after its first execution
ReturnsOnlyAtExit ==
    [][pc' = "returned" =>
          /\ pc = "running"
          /\ current \in TypedAs("exit")
          /\ Len(outcomes') = Len(outcomes) + 1
          /\ ~RetryDue(current, outcomes'[Len(outcomes')])
          /\ Completed' = Append(Completed, current)
          /\ returned'.completed_nodes = Completed'
          /\ Completed'[1] \in TypedAs("start")
          /\ OnlyExitAfterExit(Completed')]_vars

\* while running, some step is always taken: the loop has no other way out
NeverStuck ==
    [](pc = "running" /\ Len(Events) < MaxSteps =>
          \/ ~HasNode(graph, current)
          \/ ~HasHandler(graph.nodes[current])
          \/ \A outcome \in RunOutcomes :
                ENABLED (Retry(outcome) \/ Finish(outcome) \/ Route(outcome) \/ Abort(outcome)))

----------------------------------------------------------------------------
(* Claims about the routing rules, checked under Spec *)

\* the outcome a step has just executed
Executed1 == Len(outcomes') = Len(outcomes) + 1
NewOutcome == outcomes'[Len(outcomes')]

\* a step that executes the current node, a non-exit node the retry policy
\* does not repeat: the step goes on to select the next node
RoutingStep ==
    /\ Executed1
    /\ current \notin TypedAs("exit")
    /\ ~RetryDue(current, NewOutcome)

\* the suggested ids that name a node of the graph
ExistingAt(ids) == {i \in DOMAIN ids : ids[i] \in DOMAIN graph.nodes}

FirstExisting(ids) ==
    ids[CHOOSE i \in ExistingAt(ids) : \A j \in ExistingAt(ids) : i <= j]

\* the step went where selection without any suggestion goes
AsWithoutSuggestions ==
    LET bare == [NewOutcome EXCEPT !.suggested_next_ids = <<>>]
        next_node == PickNextNode(graph.nodes[current], graph, context', bare)
    IN  IF next_node = NoNode THEN pc' = "raised" /\ raised'.kind = "routing"
        ELSE pc' = "running" /\ current' = next_node

\* C17: when the outcome of a routing step suggests ids of which at least one
\* names a node, the run goes to the first such id, whatever the status, the
\* retry_target and the outgoing edges; when none names a node, the run goes
\* where it goes without suggestions.
C17_SuggestionFirst ==
    [][RoutingStep =>
          IF ExistingAt(NewOutcome.suggested_next_ids) # {}
          THEN pc' = "running" /\ current' = FirstExisting(NewOutcome.suggested_next_ids)
          ELSE AsWithoutSuggestions]_vars

\* C17 witness: a, which declares retry_target b and has no edge to itself,
\* has failed suggesting a, and the run is at a again.
C17_Witness ==
    /\ pc = "running" /\ current = "a"
    /\ Len(outcomes) >= 2
    /\ LastNode = "a" /\ LastOutcome.status = "fail"
    /\ LastOutcome.suggested_next_ids = <<"a">>
    /\ graph.nodes["a"].attrs["retry_target"] = StrV("b")
    /\ \A j \in DOMAIN graph.edges : graph.edges[j].target # "a" \/ graph.edges[j].source # "a"

\* the existing nodes that the retry_target attributes of node id name
NamedTargets(id) ==
    {graph.nodes[id].attrs[name].s : name \in {"retry_target", "fallback_retry_target"}}
        \cap DOMAIN graph.nodes

\* the step went where selection by edges goes
AsByEdges ==
    LET next_node == PickByEdges(graph, current, context', NewOutcome)
    IN  IF next_node = NoNode THEN pc' = "raised" /\ raised'.kind = "routing"
        ELSE pc' = "running" /\ current' = next_node

\* C18: in a routing step whose outcome suggests no existing node, a FAIL at a
\* node whose retry_target or fallback_retry_target names an existing node
\* goes to such a node; with any other status the run goes where the edges lead.
C18_RetryTargetOnFail ==
    [][(RoutingStep /\ ExistingAt(NewOutcome.suggested_next_ids) = {}) =>
          IF NewOutcome.status = "fail"
          THEN NamedTargets(current) # {} =>
                   pc' = "running" /\ current' \in NamedTargets(current)
          ELSE AsByEdges]_vars

----------------------------------------------------------------------------
(* Claims about the retry step and the logs, checked under Spec *)

\* the updates of the outcome are in the context after the step
MergedAfter(outcome) ==
    \A key \in CtxKeys :
        outcome.context_updates[key] # Missing => context'[key] = outcome.context_updates[key]

\* C19: a step that executes a node with a FAIL or RETRY outcome while the
\* node's counter is below its max_retries adds exactly 1 to that counter,
\* leaves the other counters alone, records the attempt's event, merges its
\* context updates and leaves the run at the same node, which is therefore
\* executed next: whatever the outcome suggests or prefers, whatever the
\* retry_target, and at the exit node too.
C19_RetryBeforeRouting ==
    [][(Executed1 /\ RetryDue(current, NewOutcome)) =>
          /\ pc' = "running" /\ current' = current
          /\ RetryCount(retries', current) = RetryCount(retries, current) + 1
          /\ \A id \in DOMAIN graph.nodes \ {current} :
                RetryCount(retries', id) = RetryCount(retries, id)
          /\ Events' = Append(Events, [node |-> current, status |-> NewOutcome.status,
                                        notes |-> NewOutcome.notes])
          /\ Completed' = Append(Completed, current)
          /\ MergedAfter(NewOutcome)
          /\ HasNode(graph, current') /\ HasHandler(graph.nodes[current'])]_vars

\* C19 witness: the exit node failed with a suggestion naming a, its counter
\* went to 1, it was executed again and the run returned.
C19_Witness ==
    /\ pc = "returned"
    /\ Len(outcomes) >= 3
    /\ outcomes[Len(outcomes) - 1].status = "fail"
    /\ outcomes[Len(outcomes) - 1].suggested_next_ids = <<"a">>
    /\ Completed[Len(Completed) - 1] \in TypedAs("exit")
    /\ LastNode \in TypedAs("exit")
    /\ context[RetryKey(LastNode)] = IntV(1)

\* the event log and completed_nodes tell the same story as the executions
LogsAgree ==
    /\ Len(Events) = Len(outcomes)
    /\ Len(Completed) = Len(outcomes)
    /\ \A i \in DOMAIN Events :
          /\ Events[i].node = Completed[i]
          /\ Events[i].status = outcomes[i].status
          /\ Events[i].notes = outcomes[i].notes

\* C20: every execution appends exactly one event and one completed_nodes
\* entry, for the node executed, whatever the status, and nothing else appends;
\* the two logs always have the same length and the same node ids; and the
\* node executed next is the same node (a retry) or the node selected from it.
C20_OneEventPerExecution ==
    /\ []LogsAgree
    /\ [][IF Executed1
           THEN /\ Events' = Append(Events, [node |-> current, status |-> NewOutcome.status,
                                             notes |-> NewOutcome.notes])
                /\ Completed' = Append(Completed, current)
                /\ pc' = "running" =>
                      \/ RetryDue(current, NewOutcome) /\ current' = current
                      \/ /\ ~RetryDue(current, NewOutcome)
                         /\ current' = PickNextNode(graph.nodes[current], graph, context',
                                                    NewOutcome)
           ELSE /\ Events' = Events /\ Completed' = Completed
                /\ (pc = "running" /\ pc' = "running") => current' = current]_vars

\* C20 witness: four executions with a retried failure, a skipped node and a
\* partial success in the logs.
C20_Witness ==
    /\ Len(Completed) = 4
    /\ \E i \in 1..3 : Completed[i] = Completed[i + 1] /\ Events[i].status = "fail"
    /\ \E i \in 1..3 : Completed[i] # Completed[i + 1] /\ Events[i].status = "skipped"
    /\ \E i \in 1..4 : Events[i].status = "partial_success"

----------------------------------------------------------------------------
(* Claims about the current node, the engine's context writes and the retry *)
(* budget, checked under Spec                                               *)

\* C21: while a run is under way its current node id names a node of the
\* graph, whichever rule selected it.
C21_CurrentNodeExists ==
    pc = "running" => current \in DOMAIN graph.nodes

\* the graph's goal attribute as text, "" when the document gives none
GoalText ==
    IF graph.graph_attrs["goal"] = NoneV THEN StrV("")
    ELSE StrV(PyStr(graph.graph_attrs["goal"]))

\* the retry counter key of node id
CounterKey(id) == "internal.retry_count." \o id

\* the context after a step that executed outcome at the current node, when
\* the engine writes what the claim lists and nothing else
ContextWritten(outcome) ==
    [key \in DOMAIN context |->
        IF RetryDue(current, outcome) /\ key = CounterKey(current)
        THEN IntV(RetryCount(retries, current) + 1)
        ELSE IF outcome.context_updates[key] # Missing
        THEN outcome.context_updates[key]
        ELSE context[key]]

\* C22: the engine writes graph.goal once, with the goal text, in the step
\* that begins the run, before any handler is executed; a step that executes a
\* node writes the outcome's context updates and, on a retry, the node's
\* counter key with the new count; no step writes another key, removes a key
\* or resets the context.
C22_EngineContextWrites ==
    [][/\ (pc = "init" /\ pc' = "running") =>
             /\ outcomes' = <<>>
             /\ context' = [context EXCEPT !["graph.goal"] = GoalText]
       /\ Executed1 => context' = ContextWritten(NewOutcome)
       /\ (~Executed1 /\ ~(pc = "init" /\ pc' = "running")) => context' = context
       /\ \A key \in DOMAIN context : context[key] # Missing => context'[key] # Missing]_vars

\* C22 witness: a run on a graph whose goal is "ship" has retried a once and
\* merged an outcome's update of k: the context holds the goal, the counter and
\* the update.
C22_Witness ==
    /\ pc \in {"running", "returned"}
    /\ graph.graph_attrs["goal"] = StrV("ship")
    /\ context["graph.goal"] = StrV("ship")
    /\ context[CounterKey("a")] = IntV(1)
    /\ context["k"] = IntV(1)

\* the engine's counter of node id in the given counters
CounterOf(r, id) == IF id \in DOMAIN r THEN r[id] ELSE 0

\* the budget of node id: its declared max_retries, none when absent or negative
BudgetOf(id) == Max(DeclaredMaxRetries(id), 0)

\* how the counters move in one step: no counter decreases or is reset; a
\* counter grows only by 1, and only in a step that executes its node with FAIL
\* or RETRY while the counter is below max_retries; a FAIL or RETRY at a node
\* whose counter has reached max_retries, on a first or on a later visit,
\* leaves the counters alone and goes to routing
CountersPerRun ==
    [][/\ \A id \in DOMAIN graph.nodes : CounterOf(retries', id) >= CounterOf(retries, id)
       /\ ~Executed1 => retries' = retries
       /\ Executed1 =>
             IF /\ NewOutcome.status \in {"fail", "retry"}
                /\ CounterOf(retries, current) < DeclaredMaxRetries(current)
             THEN /\ CounterOf(retries', current) = CounterOf(retries, current) + 1
                  /\ \A id \in DOMAIN graph.nodes \ {current} :
                        CounterOf(retries', id) = CounterOf(retries, id)
                  /\ current' = current /\ pc' = "running"
             ELSE /\ retries' = retries
                  /\ pc' = "running" =>
                        current' = PickNextNode(graph.nodes[current], graph, context',
                                                NewOutcome)]_vars

\* C23 as stated: the counters are per run, and over a whole run the retry
\* policy re-executes a node at most max_retries times.
C23_BudgetPerRunDeclared ==
    /\ CountersPerRun
    /\ [](\A id \in DOMAIN graph.nodes : CounterOf(retries, id) <= DeclaredMaxRetries(id))

\* C23 amended: the counters are per run, and over a whole run the retry policy
\* re-executes a node at most max_retries times, not at all when max_retries
\* is negative.
C23_BudgetPerRun ==
    /\ CountersPerRun
    /\ [](\A id \in DOMAIN graph.nodes : CounterOf(retries, id) <= BudgetOf(id))

\* C23 witness: a, with max_retries 1, failed and was retried, was left with an
\* outcome that led back to a, and then failed or asked for a retry again: that
\* third execution was not repeated and the run has moved on from a.
C23_Witness ==
    /\ pc = "running"
    /\ Completed = <<"start", "a", "a", "a">>
    /\ DeclaredMaxRetries("a") = 1
    /\ CounterOf(retries, "a") = 1
    /\ Events[2].status \in {"fail", "retry"}
    /\ Events[3].status \notin {"fail", "retry"}
    /\ Events[4].status \in {"fail", "retry"}
    /\ current # "a"

----------------------------------------------------------------------------
(* Claims about two runs of one graph, checked under SpecTwin *)

\* the second run has executed as many nodes as the first
CaughtUp == twin.pc # "none" /\ Len(twin.completed) = Len(Completed)

\* where the first run stands, a KeyError at the top of the next iteration
\* counting as not yet taken
Standing == IF pc = "raised" /\ raised.kind \in {"lookup", "dispatch"} THEN "running" ELSE pc

\* C24: a second run on the same graph that gets the same outcomes, while its
\* handlers and outcome updates overwrite or delete the retry counter keys and
\* every other key no guard reads, executes the same nodes in the same order,
\* keeps the same counters and ends the same way as the first run.
C24_RetryIgnoresContext ==
    /\ twin.pc # "none" => IsPrefix(twin.completed, Completed)
    /\ CaughtUp =>
          /\ twin.completed = Completed
          /\ twin.pc = Standing
          /\ twin.pc = "running" => twin.current = current
          /\ twin.retries = retries

\* C24 witness: both runs have retried a once and moved on after a second
\* failure, although the second run's retry counter key of a does not hold the
\* count.
C24_Witness ==
    /\ CaughtUp
    /\ Len(Completed) >= 3
    /\ Completed[2] = "a" /\ Completed[3] = "a"
    /\ Events[2].status \in {"fail", "retry"}
    /\ Events[3].status \in {"fail", "retry"}
    /\ CounterOf(retries, "a") = 1 /\ CounterOf(twin.retries, "a") = 1
    /\ context[RetryKey("a")] = IntV(1)
    /\ twin.context[RetryKey("a")] # IntV(1)
    /\ twin.pc = "running" /\ twin.current # "a"

----------------------------------------------------------------------------
(* Claims about termination, checked under SpecLive *)

RECURSIVE SumOver(_, _)
SumOver(S, f) ==
    IF S = {} THEN 0
    ELSE LET id == CHOOSE x \in S : TRUE
         IN  f[id] + SumOver(S \ {id}, f)

\* the sum over the nodes of 1 + max_retries, as declared
DeclaredTotal ==
    SumOver(DOMAIN graph.nodes, [id \in DOMAIN graph.nodes |-> 1 + DeclaredMaxRetries(id)])

\* the sum over the nodes of 1 + max_retries, a negative max_retries counting as 0
BudgetTotal ==
    SumOver(DOMAIN graph.nodes, [id \in DOMAIN graph.nodes |-> 1 + BudgetOf(id)])

\* routing has not led back to a node already executed: every execution of a
\* node so far was its first or a repetition by the retry policy, and the
\* node to execute next, if executed before, is being retried
NoRouteBack ==
    /\ \A id \in DOMAIN graph.nodes : CountOf(id, Events) <= 1 + CounterOf(retries, id)
    /\ (pc = "running" /\ current \in DOMAIN graph.nodes /\ CountOf(current, Events) > 0) =>
          CountOf(current, Events) = CounterOf(retries, current)

Stopped == pc \in {"returned", "raised"}

\* a run stops unless routing leads back, when the graph's total fits the
\* number of executions explored
StopsUnlessRoutedBack == (pc = "init" /\ BudgetTotal <= MaxSteps) ~> (Stopped \/ ~NoRouteBack)

\* a run is never kept on one node for more than 1 + max_retries executions in a
\* row by the retry policy
NeverKeptOnOneNode ==
    [][(Executed1 /\ current' = current /\ pc' = "running"
          /\ CounterOf(retries', current) = CounterOf(retries, current) + 1)
        => CounterOf(retries', current) <= BudgetOf(current)]_vars

\* C25 as stated: while routing has not led back to an executed node, a run
\* has executed at most the sum over the nodes of 1 + max_retries handlers, and
\* it eventually returns or raises.
C25_StopsWithinDeclaredTotal ==
    /\ [](NoRouteBack => Len(outcomes) <= DeclaredTotal)
    /\ NeverKeptOnOneNode
    /\ StopsUnlessRoutedBack

\* C25 amended: the same with a negative max_retries counting as 0 in the sum.
C25_StopsWithinBudgetTotal ==
    /\ [](NoRouteBack => Len(outcomes) <= BudgetTotal)
    /\ NeverKeptOnOneNode
    /\ StopsUnlessRoutedBack

\* C25 witness: the run start, a, a, exit on the three-node chain where a has
\* max_retries 1 has returned after exactly the total of four executions.
C25_Witness ==
    /\ pc = "returned"
    /\ NoRouteBack
    /\ BudgetTotal = 4
    /\ Completed = <<"start", "a", "a", "exit">>
====
